---- MODULE Spec2Model ----
(***************************************************************************)
(* Episodic meta-learning engine of SAMPTransfer: the bi-level training    *)
(* step of MAMLCLR (maml_clr.py), the evaluation episode                   *)
(* (_shared_eval_step / prototune / std_proto_form) of MAMLCLR and CLRGAT  *)
(* (clr_gat.py) with the calls each adapt policy makes, and the synthetic  *)
(* labels of the self-supervised training step of CLRGAT and PCLROBoW      *)
(* (protoclr_obow.py); further the prototype-initialised Classifier head,  *)
(* the fine-tuning loop of prototune in detail, the outer query set of     *)
(* fast_adapt, and the teacher and student of PCLROBoW.                    *)
(*                                                                         *)
(* Tensors are abstracted: a parameter group (backbone, graph_generator,   *)
(* gnn) holds one value in 0..ValMod-1, a gradient is an exact rational    *)
(* [num, den], an embedding row is the index of the input row it embeds.   *)
(***************************************************************************)
EXTENDS Integers, Sequences, FiniteSets, TLC

\* ---------------------------------------------------------------- bounds
BatchSize == 3      \* batch_size: instances per training batch
MaxTaskSize == 2    \* task_size ranges over 1..MaxTaskSize
ValMod == 3         \* abstract parameter values are 0..ValMod-1
MaxData == 1        \* data seeds of a batch / task / episode are 0..MaxData
MaxCalls == 2       \* handler calls (training_step, validation_step) per run
MaxEpochs == 1      \* sup_finetune_epochs ranges over 0..MaxEpochs
MaxShots == 2       \* an evaluation episode has up to EvalWays * MaxShots support rows
NQuery == 4         \* n_query: views per instance (QueryViews for adaptation, the rest outer)
EvalWays == 2       \* eval_ways
MaxSupportRows == 4 \* support rows of an episode whose fine-tuning loop is followed

\* ----------------------------------------------------- program constants
AdaptationSteps == 5    \* training_step: self.fast_adapt(..., local_learner, 5)
SupportShots == 1       \* training_step: t.split([1, 3], dim=1)
QueryViews == 3         \* training_step: t.split([1, 3], dim=1)

Comp == {"backbone", "graph_generator", "gnn"}
ZeroGrad == [c \in Comp |-> [num |-> 0, den |-> 1]]
NoParams == [c \in Comp |-> 0]
InitParams == [c \in Comp |-> IF c = "gnn" THEN 1 ELSE 0]

VARIABLES
    cfg,        \* constructor arguments of the module
    pc,         \* position of the single control thread
    store,      \* parameter storage: "outer" (self.model), "local" (clone), "snap"
    grad,       \* .grad buffers of the outer parameters
    task,       \* the task being processed in training_step (locals of the loop body)
    ti,         \* iterations of `for _ in range(task_size)` started in this step
    k,          \* inner-loop iteration of fast_adapt
    batch,      \* data of the batch set by on_train_batch_start
    pending,    \* outer loss of the current task, not yet back-propagated
    err,        \* the exception that reached the caller, "none" if none
    calls,      \* number of handler calls started
    handler,    \* the handler entered last: "none", "training_step", "eval_step"
    ep,         \* the evaluation episode and the locals of prototune
    tracing,    \* history: whether the calls and embeddings of episodes are recorded in ep
    theta0,     \* history: outer parameters when the current handler was entered
    dirty0,     \* history: whether a .grad buffer was non-zero when the handler was entered
    grad_sum,   \* history: sum of the outer-loss gradients back-propagated in this step
    done,       \* history: phases completed by each task of the current step
    n_adapt,    \* history: learner.adapt calls made for the current task
    n_step,     \* history: outer_optim.step() calls made in the current step
    last_loss   \* history: the most recent calculate_protoclr_loss call

vars == <<cfg, tracing, pc, store, grad, task, ti, k, batch, pending, err, calls, handler, ep,
          theta0, dirty0, grad_sum, done, n_adapt, n_step, last_loss>>

Phases == {"sample", "clone", "adapt", "outer_eval", "backward"}
NoTask == [ways |-> 0, steps |-> 0, learner |-> "none",
           y_support |-> <<>>, y_query |-> <<>>]
NoLoss == [n_support |-> 0, ways |-> 0, y_support |-> <<>>, y_query |-> <<>>,
           z_proto |-> <<>>, err |-> "none", by |-> "none"]

\* ------------------------------------------------------------ abstractions
\* Gradient of a prototype-classification loss at parameters theta on the data
\* identified by d (a batch, the split of a batch sampled as a task, an episode).
LossGrad(theta, d) == [c \in Comp |-> (2 * theta[c] + d + 1) % ValMod]

\* p.grad += g (backward accumulates into the .grad buffer).
Accumulate(g, dg) == [c \in Comp |-> [num |-> g[c].num + dg[c] * g[c].den, den |-> g[c].den]]

\* w.grad.mul_(1 / n) on every parameter group.
RECURSIVE Pow(_, _)
Pow(b, e) == IF e = 0 THEN 1 ELSE b * Pow(b, e - 1)
\* The scaling applied once per task instead of once per step.
ScaleGradsPerTask(g, n) == [c \in Comp |-> [num |-> g[c].num, den |-> g[c].den * Pow(n, n)]]
ScaleGrads(g, n) == [c \in Comp |-> [num |-> g[c].num, den |-> g[c].den * n]]

\* One optimizer update of parameters theta with the gradients g.
OptimStep(theta, g) == [c \in Comp |-> (theta[c] + ValMod - ((g[c].num \div g[c].den) % ValMod)) % ValMod]

\* learner.adapt(loss): one inner gradient step on the learner's parameters.
Adapt(theta, dg) == [c \in Comp |-> (theta[c] + ValMod - dg[c]) % ValMod]

\* self.model.clone(): the storage the local learner's parameters live in.
CloneShared == "outer"
CloneRef == "local"

\* outer_optim.zero_grad(); self.model.zero_grad()
KeepGrad(g) == g
zero_grad(g) == ZeroGrad

\* --------------------------------------------------- prototype classifier
\* get_prototypes(z_support, y_support, ways): one prototype per class, in
\* ascending class order, the mean of the support rows labelled with the class.
get_prototypes(n_rows, y_support, ways) ==
    IF Len(y_support) # n_rows
    THEN [err |-> "ShapeMismatch", z_proto |-> <<>>]
    ELSE IF \E c \in 0 .. (ways - 1) : \A r \in 1 .. n_rows : y_support[r] # c
    THEN [err |-> "ClassCountMismatch", z_proto |-> <<>>]
    ELSE [err |-> "none",
          z_proto |-> [c1 \in 1 .. ways |->
                          [rows |-> {r \in 1 .. n_rows : y_support[r] = c1 - 1},
                           averaged |-> TRUE]]]

\* prototypical_loss(z_proto, z_query, y_query): softmax cross-entropy of the
\* negated distances against y_query; the loss rejects a label that indexes no
\* prototype and a label vector of another length than the query rows.
prototypical_loss(z_proto, n_query_rows, y_query) ==
    IF Len(y_query) # n_query_rows THEN "ValueError"
    ELSE IF \E j \in 1 .. Len(y_query) : y_query[j] < 0 \/ y_query[j] >= Len(z_proto)
    THEN "IndexError"
    ELSE "none"

\* z_proto = z_support: in 1-shot the prototypes are the support samples.
OneShotPrototypes(n_rows) == [r \in 1 .. n_rows |-> [rows |-> {r}, averaged |-> FALSE]]

Min(a, b) == IF a < b THEN a ELSE b

\* calculate_protoclr_loss(z, y_support, y_query, ways) with self.n_support;
\* z has n_z rows, row r being the embedding of input row r.
calculate_protoclr_loss(n_z, y_support, y_query, ways, n_support, by) ==
    LET n_sup == Min(ways * n_support, n_z)
        protos == IF n_support = 1
                  THEN [err |-> "none", z_proto |-> OneShotPrototypes(n_sup)]
                  ELSE get_prototypes(n_sup, y_support, ways)
        e == IF protos.err # "none" THEN protos.err
             ELSE prototypical_loss(protos.z_proto, n_z - n_sup, y_query)
    IN [n_support |-> n_support, ways |-> ways, y_support |-> y_support, y_query |-> y_query,
        z_proto |-> protos.z_proto, err |-> e, by |-> by]

\* ------------------------------------------------ MAMLCLR.training_step
\* Synthetic labels of one task: the task's instances are classes 0..ways-1,
\* every remaining ("other") instance is labelled ways + 1.
SupportLabels(ways) ==
    [r \in 1 .. BatchSize |-> IF r <= ways * SupportShots THEN (r - 1) \div SupportShots ELSE ways + 1]
QueryLabels(ways) ==
    [r \in 1 .. (BatchSize * QueryViews) |->
        IF r <= ways * QueryViews THEN (r - 1) \div QueryViews ELSE ways + 1]

\* y_query_q of fast_adapt: arange(batch_size) repeated n_query - 3 times each.
OuterQueryLabels == [r \in 1 .. (BatchSize * (cfg.n_query - QueryViews)) |->
                        (r - 1) \div (cfg.n_query - QueryViews)]
\* Rows of the outer query set, taken to be as many as calculate_protoclr_loss
\* slices: batch_size rows read as support and one row per label of y_query_q.
OuterRows == BatchSize + BatchSize * (cfg.n_query - QueryViews)

\* for _ in range(adaptation_steps): whether iteration number k (0-based) runs.
InnerLoopOneMore(i, steps) == i <= steps
InnerLoopOneLess(i, steps) == i + 1 < steps
InnerLoopContinues(i, steps) == i < steps

\* Where control goes when fast_adapt has returned the outer loss.
DeferBackward == "loop"
AfterFastAdapt == "backward"

Raise(e) ==
    /\ pc' = "raised"
    /\ err' = e

MarkDone(ph) == [done EXCEPT ![ti] = @ \cup {ph}]

\* on_train_batch_start; outer_optim.zero_grad(); self.model.zero_grad()
training_step_begin ==
    /\ pc = "idle"
    /\ cfg.cls = "MAMLCLR"
    /\ calls < MaxCalls
    /\ \E d \in 0 .. MaxData : batch' = [d |-> d]
    /\ grad' = zero_grad(grad)
    /\ calls' = calls + 1
    /\ ti' = 0
    /\ k' = 0
    /\ theta0' = store["outer"]
    /\ dirty0' = (grad # ZeroGrad)
    /\ grad_sum' = [c \in Comp |-> 0]
    /\ done' = [i \in 1 .. cfg.task_size |-> {}]
    /\ n_step' = 0
    /\ n_adapt' = 0
    /\ pc' = "loop"
    /\ handler' = "training_step"
    /\ UNCHANGED <<cfg, tracing, store, task, pending, err, last_loss, ep>>

\* t, other = self.task_generator.sample()
sample_task ==
    /\ pc = "loop"
    /\ ti < cfg.task_size
    /\ \E ways \in 1 .. BatchSize : task' = [NoTask EXCEPT !.ways = ways]
    /\ ti' = ti + 1
    /\ done' = [done EXCEPT ![ti + 1] = {"sample"}]
    /\ n_adapt' = 0
    /\ pc' = "clone"
    /\ UNCHANGED <<cfg, tracing, handler, ep, store, grad, k, batch, pending, err, calls, theta0, dirty0,
                   grad_sum, n_step, last_loss>>

\* local_learner = self.model.clone(); build the task's tensors and labels;
\* enter fast_adapt with the given number of adaptation steps.
clone_learner(steps) ==
    /\ pc = "clone"
    /\ store' = [store EXCEPT ![CloneRef] = store["outer"]]
    /\ task' = [task EXCEPT !.learner = CloneRef, !.steps = steps,
                            !.y_support = SupportLabels(task.ways),
                            !.y_query = QueryLabels(task.ways)]
    /\ k' = 0
    /\ done' = MarkDone("clone")
    /\ pc' = "adapt"
    /\ UNCHANGED <<cfg, tracing, handler, ep, grad, ti, batch, pending, err, calls, theta0, dirty0,
                   grad_sum, n_adapt, n_step, last_loss>>

\* fast_adapt, one iteration of the inner loop.
adapt_step ==
    /\ pc = "adapt"
    /\ InnerLoopContinues(k, task.steps)
    /\ LET L == calculate_protoclr_loss(BatchSize * (SupportShots + QueryViews),
                    task.y_support, task.y_query, BatchSize, cfg.n_support, "adapt")
       IN /\ last_loss' = L
          /\ IF L.err # "none"
             THEN /\ Raise(L.err)
                  /\ UNCHANGED <<store, k, n_adapt, done>>
             ELSE /\ store' = [store EXCEPT ![task.learner] =
                                  Adapt(store[task.learner], LossGrad(store[task.learner], batch.d + task.ways))]
                  /\ k' = k + 1
                  /\ n_adapt' = n_adapt + 1
                  /\ done' = MarkDone("adapt")
                  /\ UNCHANGED <<pc, err>>
    /\ UNCHANGED <<cfg, tracing, handler, ep, grad, task, ti, batch, pending, calls, theta0, dirty0, grad_sum, n_step>>

\* fast_adapt after the inner loop: the learner scored on the outer query set.
outer_eval ==
    /\ pc = "adapt"
    /\ ~InnerLoopContinues(k, task.steps)
    /\ LET L == calculate_protoclr_loss(OuterRows, task.y_support, OuterQueryLabels,
                                        BatchSize, cfg.n_support, "outer_eval")
       IN /\ last_loss' = L
          /\ IF L.err # "none"
             THEN /\ Raise(L.err)
                  /\ UNCHANGED <<pending, done>>
             ELSE /\ pending' = LossGrad(store[task.learner], batch.d)
                  /\ done' = MarkDone("outer_eval")
                  /\ pc' = AfterFastAdapt
                  /\ UNCHANGED err
    /\ UNCHANGED <<cfg, tracing, handler, ep, store, grad, task, ti, k, batch, calls, theta0, dirty0, grad_sum,
                   n_adapt, n_step>>

\* self.manual_backward(loss): first-order MAML, the gradient at the adapted
\* parameters is accumulated into the outer parameters' .grad. The loop body
\* ends here: the learner and the loss of this task are not used again.
manual_backward ==
    /\ pc = "backward"
    /\ grad' = Accumulate(grad, pending)
    /\ grad_sum' = [c \in Comp |-> grad_sum[c] + pending[c]]
    /\ done' = MarkDone("backward")
    /\ pending' = NoParams
    /\ store' = [store EXCEPT !["local"] = NoParams]
    /\ task' = [NoTask EXCEPT !.y_support = task.y_support]
    /\ k' = 0
    /\ n_adapt' = 0
    /\ last_loss' = NoLoss
    /\ pc' = "loop"
    /\ UNCHANGED <<cfg, tracing, handler, ep, ti, batch, err, calls, theta0, dirty0, n_step>>

\* for p in self.model.parameters(): p.grad.data.mul_(1. / self.task_size)
scale_grads ==
    /\ pc = "loop"
    /\ ti >= cfg.task_size
    /\ grad' = ScaleGrads(grad, cfg.task_size)
    /\ pc' = "step"
    /\ UNCHANGED <<cfg, tracing, handler, ep, store, task, ti, k, batch, pending, err, calls, theta0, dirty0,
                   grad_sum, done, n_adapt, n_step, last_loss>>

\* outer_optim.step()
outer_optim_step ==
    /\ pc = "step"
    /\ store' = [store EXCEPT !["outer"] = OptimStep(store["outer"], grad)]
    /\ n_step' = n_step + 1
    /\ pc' = "metric"
    /\ UNCHANGED <<cfg, tracing, handler, ep, grad, task, ti, k, batch, pending, err, calls, theta0, dirty0,
                   grad_sum, done, n_adapt, last_loss>>

\* the post-step metric under torch.no_grad(), then return
training_step_return ==
    /\ pc = "metric"
    /\ LET L == calculate_protoclr_loss(OuterRows, task.y_support, OuterQueryLabels,
                                        BatchSize, cfg.n_support, "metric")
       IN /\ last_loss' = L
          /\ IF L.err # "none"
             THEN /\ Raise(L.err)
                  /\ UNCHANGED task
             ELSE /\ pc' = "idle"
                  /\ task' = NoTask
                  /\ UNCHANGED err
    /\ UNCHANGED <<cfg, tracing, handler, ep, store, grad, ti, k, batch, pending, calls, theta0, dirty0,
                   grad_sum, done, n_adapt, n_step>>

\* ------------------------------------------- _shared_eval_step / prototune
NoEpisode == [n_support_rows |-> 0, n_query_rows |-> 0, d |-> 0, snap |-> "none",
              n_support |-> 0, epoch |-> 0, j |-> 0,
              trace |-> <<>>, z_proto |-> <<>>, output |-> <<>>, y_query |-> <<>>,
              scored |-> "none"]

\* copy.deepcopy(self.state_dict()): the storage the snapshot lives in.
SnapshotRef == "snap"

\* self.load_state_dict(original_encoder_state)
KeepState(current, saved) == current
load_state_dict(current, saved) == saved

\* Parameter groups a fine-tuning forward pass runs through, by class and policy.
ForwardComps ==
    IF cfg.cls = "MAMLCLR"
    THEN IF cfg.adapt \in {"task", "proto_only", "ot", "instance"} THEN Comp ELSE {"backbone"}
    ELSE IF cfg.adapt \in {"task", "proto_only", "instance"} THEN Comp ELSE {"backbone"}

\* Input rows of an episode, numbered as in torch.cat([x_a_i, x_b_i]).
SupportRows(e) == [i \in 1 .. e.n_support_rows |-> i]
QueryRows(e) == [i \in 1 .. e.n_query_rows |-> e.n_support_rows + i]

\* np.repeat(range(n_way), n): the label of every row by its position.
RepeatLabels(n_way, n) == [r \in 1 .. (n_way * n) |-> (r - 1) \div n]

\* An embedding row is the set of input rows it is computed from and the
\* functions applied to them, in order.
backbone(xs) == [i \in 1 .. Len(xs) |-> [rows |-> {xs[i]}, path |-> <<"backbone">>]]

\* graph_generator.get_graph(z) followed by gnn(z, edge_index, edge_attr, ...):
\* one refined row per input row, in the order of the input.
gnn(z) == [i \in 1 .. Len(z) |-> [z[i] EXCEPT !.path = Append(@, "gnn")]]

\* transportation_module(z_a_i, z_query): the support and query rows re-aligned.
OptimalTransport(z) == [i \in 1 .. Len(z) |-> [z[i] EXCEPT !.path = Append(@, "ot")]]

\* z_support.view(n_way, n_support, -1).mean(1): prototype c is the mean of
\* rows c * n_support .. (c + 1) * n_support - 1.
ViewMeanStrided(z, n_way, n_support) ==
    [c \in 1 .. n_way |->
        [rows |-> UNION {z[c + (s - 1) * n_way].rows : s \in 1 .. n_support},
         path |-> Append(z[c].path, "mean")]]
view_mean(z, n_way, n_support) ==
    [c \in 1 .. n_way |->
        [rows |-> UNION {z[(c - 1) * n_support + s].rows : s \in 1 .. n_support},
         path |-> Append(z[(c - 1) * n_support + 1].path, "mean")]]

\* combined.split([n1, n2]): the first n1 rows and the n2 rows after them.
split(z, n1, n2) == <<SubSeq(z, 1, n1), SubSeq(z, n1 + 1, n1 + n2)>>

\* What an embedding row stands for: a prototype, a support or a query example.
KindOf(e, row) ==
    IF \E i \in 1 .. Len(row.path) : row.path[i] = "mean" THEN "proto"
    ELSE IF \A r \in row.rows : r <= e.n_support_rows THEN "support"
    ELSE "query"
Kinds(e, z) == {KindOf(e, z[i]) : i \in 1 .. Len(z)}

\* One entry of the call trace of an episode: the policy dispatch, or a call
\* of the backbone, the graph generator + refiner, or the transport module,
\* with the rows it was applied to.
Ev(op, stage, e, z) == [op |-> op, stage |-> stage, kinds |-> Kinds(e, z), input |-> z]
Dispatch(stage) == [op |-> "dispatch", stage |-> stage, kinds |-> {}, input |-> <<>>]

\* self.forward(x) / self.mpnn_forward(x): self.model(x), the GNN module when
\* mpnn_opts["_use"], the backbone alone otherwise.
forward(xs) == IF cfg.use THEN gnn(backbone(xs)) ELSE backbone(xs)
ForwardTrace(stage, e, xs) ==
    IF cfg.use
    THEN <<Ev("backbone", stage, e, backbone(xs)), Ev("gnn", stage, e, backbone(xs))>>
    ELSE <<Ev("backbone", stage, e, backbone(xs))>>

WellFormed(e) ==
    /\ e.n_support_rows = EvalWays * (e.n_support_rows \div EvalWays)
    /\ e.n_query_rows = EvalWays * (e.n_query_rows \div EvalWays)

\* The initial embedding of prototune: the policy dispatch and the classifier
\* initialised from the prototypes. Yields the error it raises, "none" if none.
EmbedError(e) ==
    IF e.n_support_rows # EvalWays * (e.n_support_rows \div EvalWays)
    THEN "RuntimeError"       \* the rows are no n_way * n_support: view / cat / split
    ELSE IF cfg.adapt \in {"task", "proto_only"}
    THEN "AttributeError"     \* self.graph_generator is no attribute of the module
    ELSE "none"

\* prototune from self.eval() to classifier.init_params_from_prototypes on a
\* support set of n_way * n_support rows: the calls made, the support
\* embedding z_a_i and the prototypes the classifier is initialised from (for
\* task and proto_only the z_proto computed before the graph is asked for).
prototune_initial(e) ==
    LET xa == SupportRows(e)
        xb == QueryRows(e)
        D == <<Dispatch("init")>>
    IN IF cfg.adapt = "task"
       THEN [trace |-> D \o <<Ev("backbone", "init", e, backbone(xa)),
                              Ev("backbone", "init", e, backbone(xb))>>,
             z_proto |-> view_mean(backbone(xa), EvalWays, e.n_support)]
       ELSE IF cfg.adapt = "proto_only"
       THEN [trace |-> D \o <<Ev("backbone", "init", e, backbone(xa \o xb))>>,
             z_proto |-> view_mean(split(backbone(xa \o xb), Len(xa), Len(xb))[1],
                                   EvalWays, e.n_support)]
       ELSE IF cfg.adapt = "instance"
       THEN [trace |-> D \o ForwardTrace("init", e, xa \o xb),
             z_proto |-> view_mean(split(forward(xa \o xb), Len(xa), Len(xb))[1],
                                   EvalWays, e.n_support)]
       ELSE IF cfg.adapt = "ot" /\ cfg.cls = "MAMLCLR"
       THEN [trace |-> D \o ForwardTrace("init", e, xa) \o ForwardTrace("init", e, xb)
                         \o <<Ev("ot", "init", e, forward(xa) \o forward(xb))>>,
             z_proto |-> view_mean(split(OptimalTransport(forward(xa) \o forward(xb)),
                                         Len(xa), Len(xb))[1],
                                   EvalWays, e.n_support)]
       ELSE [trace |-> D \o <<Ev("backbone", "init", e, backbone(xa))>>,
             z_proto |-> view_mean(backbone(xa), EvalWays, e.n_support)]

\* The forward pass of one fine-tuning mini-batch of support rows xs.
finetune_forward(e, xs) ==
    LET D == <<Dispatch("finetune")>>
    IN IF cfg.cls = "MAMLCLR"
       THEN IF cfg.adapt \in {"task", "proto_only", "ot"}
            THEN D \o ForwardTrace("finetune", e, xs)
            ELSE IF cfg.adapt = "instance"
            THEN D \o ForwardTrace("finetune", e, xs \o QueryRows(e))
            ELSE D \o <<Ev("backbone", "finetune", e, backbone(xs))>>
       ELSE IF cfg.adapt \in {"task", "proto_only", "instance"}
            THEN D \o ForwardTrace("finetune", e, xs)
            ELSE D \o <<Ev("backbone", "finetune", e, backbone(xs))>>

\* The final scoring pass of prototune: the calls made, the query embeddings
\* handed to the classifier and the error raised before they exist, if any.
prototune_final(e) ==
    LET xa == SupportRows(e)
        xb == QueryRows(e)
        D == <<Dispatch("score")>>
        combined == view_mean(backbone(xa), EvalWays, e.n_support) \o backbone(xb)
    IN IF cfg.adapt = "task"
       THEN IF cfg.cls = "MAMLCLR"
            THEN [trace |-> D \o <<Ev("backbone", "score", e, backbone(xa)),
                                   Ev("backbone", "score", e, backbone(xb)),
                                   Ev("gnn", "score", e, combined)>>,
                  output |-> split(gnn(combined), EvalWays, Len(xb))[2],
                  err |-> "none"]
            ELSE [trace |-> D \o <<Ev("backbone", "score", e, backbone(xa)),
                                   Ev("backbone", "score", e, backbone(xb))>>,
                  output |-> <<>>,
                  err |-> "AttributeError"]
       ELSE IF cfg.adapt = "instance"
       THEN [trace |-> D \o ForwardTrace("score", e, xa \o xb),
             output |-> split(forward(xa \o xb), Len(xa), Len(xb))[2],
             err |-> "none"]
       ELSE IF cfg.cls = "MAMLCLR"
       THEN [trace |-> D \o ForwardTrace("score", e, xb),
             output |-> forward(xb),
             err |-> "none"]
       ELSE [trace |-> D \o <<Ev("backbone", "score", e, backbone(xb))>>,
             output |-> backbone(xb),
             err |-> "none"]

\* Final scoring: F.cross_entropy(scores, y_query) with one score row per
\* query row and n_way * (rows // n_way) labels.
ScoreError(e) ==
    IF e.n_query_rows # EvalWays * (e.n_query_rows \div EvalWays)
    THEN "ValueError"
    ELSE "none"

\* The branch of _shared_eval_step that self.sup_finetune selects: the chain of
\* `if self.sup_finetune == ...` has no else, a value that matches no branch
\* goes on to the return with loss = 0. and acc = 0.
eval_branch ==
    IF cfg.sup_finetune = "prototune" THEN "pt_embed"
    ELSE IF cfg.sup_finetune = "std_proto" THEN "std_proto"
    ELSE "restore"

\* loss = 0.; acc = 0.; original_encoder_state = copy.deepcopy(self.state_dict()),
\* then dispatch
shared_eval_step_begin ==
    /\ pc = "idle"
    /\ calls < MaxCalls
    /\ \E ns \in EvalWays .. (EvalWays * MaxShots), nq \in EvalWays .. (EvalWays + 1),
          d \in 0 .. MaxData :
          ep' = [NoEpisode EXCEPT !.n_support_rows = ns, !.n_query_rows = nq, !.d = d,
                                  !.snap = SnapshotRef, !.n_support = ns \div EvalWays]
    /\ store' = [store EXCEPT ![SnapshotRef] = store["outer"]]
    /\ theta0' = store["outer"]
    /\ calls' = calls + 1
    /\ dirty0' = (grad # ZeroGrad)
    /\ grad_sum' = [c \in Comp |-> 0]
    /\ done' = <<>>
    /\ n_adapt' = 0
    /\ n_step' = 0
    /\ last_loss' = NoLoss
    /\ handler' = "eval_step"
    /\ pc' = eval_branch
    /\ UNCHANGED <<cfg, tracing, grad, task, ti, k, batch, pending, err>>

\* prototune up to the fine-tuning loop
prototune_embed ==
    /\ pc = "pt_embed"
    /\ IF EmbedError(ep) = "RuntimeError"
       THEN /\ Raise("RuntimeError")
            /\ ep' = IF tracing THEN [ep EXCEPT !.trace = prototune_initial(ep).trace] ELSE ep
       ELSE /\ ep' = IF tracing
                     THEN [ep EXCEPT !.trace = prototune_initial(ep).trace,
                                     !.z_proto = prototune_initial(ep).z_proto]
                     ELSE ep
            /\ IF EmbedError(ep) # "none"
               THEN Raise(EmbedError(ep))
               ELSE /\ pc' = "pt_loop"
                    /\ UNCHANGED err
    /\ UNCHANGED <<cfg, tracing, store, grad, task, ti, k, batch, pending, calls, handler,
                   theta0, dirty0, grad_sum, done, n_adapt, n_step, last_loss>>

\* one mini-batch of the fine-tuning loop: zero_grad, forward, loss.backward(),
\* classifier_opt.step() and, unless frozen, delta_opt.step() on the gnn
finetune_batch ==
    /\ pc = "pt_loop"
    /\ ep.epoch < cfg.epochs
    /\ LET g0 == IF cfg.freeze THEN grad
                 ELSE [grad EXCEPT !["gnn"] = [num |-> 0, den |-> 1]]
           dg == LossGrad(store["outer"], ep.d)
           g1 == [c \in Comp |-> IF c \in ForwardComps
                                 THEN [num |-> g0[c].num + dg[c] * g0[c].den, den |-> g0[c].den]
                                 ELSE g0[c]]
           stepped == OptimStep(store["outer"], g1)
       IN /\ grad' = g1
          /\ store' = IF cfg.freeze THEN store
                      ELSE [store EXCEPT !["outer"]["gnn"] = stepped["gnn"]]
    /\ LET \* n_way rows of the permuted support set (doubled by their augmented
           \* views in CLRGAT): which rows they are does not change the calls made
           z_batch == SubSeq(SupportRows(ep), ep.j + 1,
                             Min(ep.j + EvalWays, EvalWays * ep.n_support))
           e1 == IF tracing THEN [ep EXCEPT !.trace = @ \o finetune_forward(ep, z_batch)]
                 ELSE ep
       IN ep' = IF ep.j + EvalWays < EvalWays * ep.n_support
                THEN [e1 EXCEPT !.j = @ + EvalWays]
                ELSE [e1 EXCEPT !.j = 0, !.epoch = @ + 1]
    /\ UNCHANGED <<cfg, tracing, pc, task, ti, k, batch, pending, err, calls, handler,
                   theta0, dirty0, grad_sum, done, n_adapt, n_step, last_loss>>

\* the query set scored by the fine-tuned classifier; prototune returns
prototune_score ==
    /\ pc = "pt_loop"
    /\ ep.epoch >= cfg.epochs
    /\ LET f == prototune_final(ep)
       IN /\ ep' = IF tracing
                   THEN [ep EXCEPT !.trace = @ \o f.trace, !.output = f.output,
                                   !.y_query = RepeatLabels(EvalWays, ep.n_query_rows \div EvalWays),
                                   !.scored = IF f.err = "none" /\ ScoreError(ep) = "none"
                                              THEN "prototune" ELSE "none"]
                   ELSE ep
          /\ IF f.err # "none"
             THEN Raise(f.err)
             ELSE IF ScoreError(ep) # "none"
             THEN Raise(ScoreError(ep))
             ELSE /\ pc' = "restore"
                  /\ UNCHANGED err
    /\ UNCHANGED <<cfg, tracing, store, grad, task, ti, k, batch, pending, calls, handler,
                   theta0, dirty0, grad_sum, done, n_adapt, n_step, last_loss>>

\* The labels an episode carries for n rows of EvalWays classes, class by class.
EpisodeLabels(n) == [r \in 1 .. n |-> Min((r - 1) \div (n \div EvalWays), EvalWays - 1)]

\* The prototypes of get_prototypes as embedding rows of z.
ProtoEmb(z, protos) ==
    [c \in 1 .. Len(protos) |->
        [rows |-> UNION {z[r].rows : r \in protos[c].rows},
         path |-> Append(z[1].path, "mean")]]

\* std_proto_form up to get_prototypes: the calls made and the embedding z of
\* torch.cat([x_support, x_query], 1).
std_proto_embed(e) ==
    LET x == SupportRows(e) \o QueryRows(e)
        D == <<Dispatch("std_proto")>>
    IN IF cfg.cls = "MAMLCLR"
       THEN IF cfg.adapt = "ot"
            THEN [trace |-> ForwardTrace("std_proto", e, x) \o D
                              \o ForwardTrace("std_proto", e, SupportRows(e))
                              \o ForwardTrace("std_proto", e, QueryRows(e))
                              \o <<Ev("ot", "std_proto", e,
                                      forward(SupportRows(e)) \o forward(QueryRows(e)))>>,
                  z |-> OptimalTransport(forward(SupportRows(e)) \o forward(QueryRows(e)))]
            ELSE [trace |-> ForwardTrace("std_proto", e, x) \o D,
                  z |-> forward(x)]
       ELSE IF cfg.use /\ cfg.adapt = "instance"
            THEN [trace |-> D \o ForwardTrace("std_proto", e, x),
                  z |-> forward(x)]
            ELSE [trace |-> D \o <<Ev("backbone", "std_proto", e, backbone(x))>>,
                  z |-> backbone(x)]

\* with torch.no_grad(): loss, acc = self.std_proto_form(batch, batch_idx)
std_proto_form ==
    /\ pc = "std_proto"
    /\ LET shots == ep.n_support_rows \div EvalWays
           emb == std_proto_embed(ep)
           z_support == SubSeq(emb.z, 1, EvalWays * shots)
           z_query == SubSeq(emb.z, EvalWays * shots + 1, Len(emb.z))
           protos == get_prototypes(Len(z_support), EpisodeLabels(ep.n_support_rows), EvalWays)
           graph_err == IF cfg.cls = "CLRGAT" /\ cfg.use /\ cfg.adapt \in {"task", "proto_only"}
                        THEN "AttributeError"   \* self.graph_generator
                        ELSE "none"
           e == IF protos.err # "none" THEN protos.err
                ELSE IF graph_err # "none" THEN graph_err
                ELSE prototypical_loss(protos.z_proto, Len(z_query), EpisodeLabels(ep.n_query_rows))
       IN /\ ep' = IF ~tracing THEN ep ELSE
                   [ep EXCEPT !.trace = emb.trace
                                  \o (IF cfg.cls = "CLRGAT" /\ protos.err = "none"
                                      THEN <<Dispatch("std_proto")>> ELSE <<>>),
                              !.z_proto = IF protos.err = "none"
                                          THEN ProtoEmb(z_support, protos.z_proto) ELSE <<>>,
                              !.output = IF e = "none" THEN z_query ELSE <<>>,
                              !.y_query = EpisodeLabels(ep.n_query_rows),
                              !.scored = IF e = "none" THEN "std_proto" ELSE "none"]
          /\ IF e # "none"
             THEN Raise(e)
             ELSE /\ pc' = "restore"
                  /\ UNCHANGED err
    /\ UNCHANGED <<cfg, tracing, store, grad, task, ti, k, batch, pending, calls, handler,
                   theta0, dirty0, grad_sum, done, n_adapt, n_step, last_loss>>

\* Whether the branch taken is followed by self.load_state_dict: always in
\* MAMLCLR, in the prototune branch in CLRGAT.
Restores == cfg.cls = "MAMLCLR" \/ cfg.sup_finetune = "prototune"

\* self.load_state_dict(original_encoder_state); return loss, acc
shared_eval_step_return ==
    /\ pc = "restore"
    /\ store' = [store EXCEPT !["outer"] = IF Restores
                                           THEN load_state_dict(store["outer"], store[ep.snap])
                                           ELSE store["outer"],
                              !["snap"] = NoParams]
    /\ ep' = NoEpisode
    /\ pc' = "idle"
    /\ UNCHANGED <<cfg, tracing, grad, task, ti, k, batch, pending, err, calls, handler,
                   theta0, dirty0, grad_sum, done, n_adapt, n_step, last_loss>>

\* ------------------------- CLRGAT.training_step / PCLROBoW.training_step
\* batch['origs'] and batch['views'] of `ways` instances: n_support originals
\* and n_query augmented views per instance, each image tagged with its instance.
Origs(ways, n_support) ==
    [i \in 1 .. ways |-> [s \in 1 .. n_support |-> [inst |-> i - 1, view |-> 0]]]
Views(ways, n_query) ==
    [i \in 1 .. ways |-> [j \in 1 .. n_query |-> [inst |-> i - 1, view |-> j]]]

\* t.reshape((m * n, ...)) of a tensor of m rows of n images: row-major.
reshape(t, n) == [r \in 1 .. (Len(t) * n) |-> t[((r - 1) \div n) + 1][((r - 1) % n) + 1]]

\* torch.arange(ways).unsqueeze(0).unsqueeze(2).repeat(batch_size, 1, n)
\* .view(batch_size, -1) with batch_size = 1: class i repeated n times, then
\* flattened row-major.
TiledLabels(ways, n) == [r \in 1 .. (ways * n) |-> (r - 1) % ways]
dummy_labels(ways, n) ==
    LET y == [i \in 1 .. ways |-> [j \in 1 .. n |-> i - 1]]
    IN reshape(y, n)

\* training_step up to the forward pass: the batch reshaped and labelled
self_sup_begin ==
    /\ pc = "idle"
    /\ cfg.cls \in {"CLRGAT", "PCLROBoW"}
    /\ calls < MaxCalls
    /\ \E d \in 0 .. MaxData, ways \in 1 .. BatchSize :
          /\ batch' = [d |-> d]
          /\ task' = [ways |-> ways, steps |-> 0, learner |-> "none",
                      x_support |-> reshape(Origs(ways, cfg.n_support), cfg.n_support),
                      x_query |-> reshape(Views(ways, cfg.n_query), cfg.n_query),
                      y_support |-> dummy_labels(ways, cfg.n_support),
                      y_query |-> dummy_labels(ways, cfg.n_query)]
    /\ calls' = calls + 1
    /\ handler' = "self_sup_training_step"
    /\ last_loss' = NoLoss
    /\ pc' = "ss_loss"
    /\ UNCHANGED <<cfg, tracing, store, grad, ti, k, pending, err, ep, theta0, dirty0, grad_sum,
                   done, n_adapt, n_step>>

\* the forward pass over torch.cat([x_support, x_query]), the loss and return
self_sup_loss ==
    /\ pc = "ss_loss"
    /\ LET L == calculate_protoclr_loss(Len(task.x_support) + Len(task.x_query),
                    task.y_support, task.y_query, task.ways, cfg.n_support, "self_sup")
       IN /\ last_loss' = L
          /\ IF L.err # "none"
             THEN Raise(L.err)
             ELSE /\ pc' = "idle"
                  /\ UNCHANGED err
    /\ UNCHANGED <<cfg, tracing, store, grad, task, ti, k, batch, pending, calls, handler, ep,
                   theta0, dirty0, grad_sum, done, n_adapt, n_step>>

\* ------------------------------------------------------------ the machine
Config ==
    LET Eval(cls, ts, ns) ==
            [cls : {cls}, task_size : ts, n_support : ns, n_query : {NQuery},
             adapt : {"none", "task", "proto_only", "instance", "ot"},
             freeze : BOOLEAN,
             epochs : 0 .. MaxEpochs,
             use : {TRUE},
             sup_finetune : {"prototune"}]
    IN Eval("MAMLCLR", 1 .. MaxTaskSize, 1 .. 2)
       \cup Eval("CLRGAT", {1}, {1})    \* CLRGAT has no task loop

\* An evaluated module: every policy, both evaluation paths, and
\* sup_finetune=True (the constructor default of CLRGAT), a value that no
\* branch of _shared_eval_step matches. mpnn_opts["_use"] is off outside
\* prototune only: prototune names self.model.backbone and self.model.gnn,
\* the parts of the GNN module built when _use is on.
EvalConfig ==
    {c \in [cls : {"MAMLCLR", "CLRGAT"}, task_size : {1}, n_support : {1}, n_query : {NQuery},
            adapt : {"none", "task", "proto_only", "instance", "ot"},
            freeze : BOOLEAN,
            epochs : 0 .. MaxEpochs,
            use : BOOLEAN,
            sup_finetune : {"prototune", "std_proto", "True"}] :
        c.use \/ c.sup_finetune # "prototune"}

InitState ==
    /\ pc = "idle"
    /\ store = [r \in {"outer", "local", "snap"} |-> IF r = "outer" THEN InitParams ELSE NoParams]
    /\ grad = ZeroGrad
    /\ task = NoTask
    /\ ti = 0
    /\ k = 0
    /\ batch = [d |-> 0]
    /\ pending = NoParams
    /\ err = "none"
    /\ calls = 0
    /\ handler = "none"
    /\ ep = NoEpisode
    /\ theta0 = InitParams
    /\ dirty0 = FALSE
    /\ grad_sum = [c \in Comp |-> 0]
    /\ done = <<>>
    /\ n_adapt = 0
    /\ n_step = 0
    /\ last_loss = NoLoss

Init ==
    /\ cfg \in Config
    /\ tracing = FALSE
    /\ InitState

Training ==
    \/ training_step_begin
    \/ sample_task
    \/ adapt_step
    \/ outer_eval
    \/ manual_backward
    \/ scale_grads
    \/ outer_optim_step
    \/ training_step_return

Evaluation ==
    \/ shared_eval_step_begin
    \/ prototune_embed
    \/ finetune_batch
    \/ prototune_score
    \/ shared_eval_step_return

Next ==
    \/ Training
    \/ clone_learner(AdaptationSteps)
    \/ Evaluation

Spec == Init /\ [][Next]_vars

\* fast_adapt entered with any number of adaptation steps (its parameter),
\* in a module that is only trained.
InitFastAdapt ==
    /\ Init
    /\ cfg.cls = "MAMLCLR"
    /\ cfg.adapt = "none"
    /\ cfg.freeze
    /\ cfg.epochs = 0

NextFastAdapt ==
    \/ Training
    \/ \E n \in {0, AdaptationSteps} : clone_learner(n)

SpecFastAdapt == InitFastAdapt /\ [][NextFastAdapt]_vars

\* Evaluation episodes of a module under every policy and both paths.
InitEval ==
    /\ cfg \in EvalConfig
    /\ tracing = TRUE
    /\ InitState

NextEval ==
    \/ Evaluation
    \/ std_proto_form

SpecEval == InitEval /\ [][NextEval]_vars

\* Self-supervised training of CLRGAT and PCLROBoW.
SelfSupConfig ==
    [cls : {"CLRGAT", "PCLROBoW"}, task_size : {1}, n_support : 1 .. 2, n_query : 1 .. NQuery,
     adapt : {"none"}, freeze : {TRUE}, epochs : {0}, use : {TRUE},
     sup_finetune : {"prototune"}]

InitSelfSup ==
    /\ cfg \in SelfSupConfig
    /\ tracing = FALSE
    /\ InitState

NextSelfSup ==
    \/ self_sup_begin
    \/ self_sup_loss

SpecSelfSup == InitSelfSup /\ [][NextSelfSup]_vars

\* ----------------------------- Classifier: the prototype-initialised head
\* Embeddings are scalars here and fractions are exact: [num, den], den > 0.
RECURSIVE SumRows(_, _, _)
SumRows(z, from, n) == IF n = 0 THEN 0 ELSE z[from] + SumRows(z, from + 1, n - 1)

\* z_support.view(n_way, n_support, -1).mean(1) over embedding values
mean_1(z_support, n_way, n_support) ==
    [c \in 1 .. n_way |->
        [num |-> SumRows(z_support, (c - 1) * n_support + 1, n_support), den |-> n_support]]

\* torch.norm(z_proto, dim=-1) ** 2
norm_squared(p) == [num |-> p.num * p.num, den |-> p.den * p.den]

\* Classifier.init_params_from_prototypes: the state dict loaded into self.fc
InitParamsHalfWeight(z_support, n_way, n_support) ==
    LET z_proto == mean_1(z_support, n_way, n_support)
    IN [weight |-> z_proto,
        bias |-> [c \in 1 .. n_way |-> [norm_squared(z_proto[c]) EXCEPT !.num = 0 - @]]]
init_params_from_prototypes(z_support, n_way, n_support) ==
    LET z_proto == mean_1(z_support, n_way, n_support)
    IN [weight |-> [c \in 1 .. n_way |-> [z_proto[c] EXCEPT !.num = 2 * @]],
        bias |-> [c \in 1 .. n_way |-> [norm_squared(z_proto[c]) EXCEPT !.num = 0 - @]]]

\* Classifier.forward: self.fc(x), one score per class
fc(head, x) ==
    [c \in 1 .. Len(head.weight) |->
        [num |-> head.weight[c].num * x * head.bias[c].den + head.bias[c].num * head.weight[c].den,
         den |-> head.weight[c].den * head.bias[c].den]]

Less(a, b) == a.num * b.den < b.num * a.den

\* torch.max(scores, dim=1): the index of the first maximal score
argmax(scores) ==
    CHOOSE c \in 1 .. Len(scores) :
        /\ \A c2 \in 1 .. Len(scores) : ~Less(scores[c], scores[c2])
        /\ \A c2 \in 1 .. (c - 1) : Less(scores[c2], scores[c])

\* nn.Linear(dim, n_way): the head as constructed, before any initialisation
DefaultHeads(n_way) ==
    {[weight |-> [c \in 1 .. n_way |-> [num |-> w, den |-> 1]],
      bias |-> [c \in 1 .. n_way |-> [num |-> 0, den |-> 1]]] : w \in {0, 1}}

\* classifier = Classifier(input_dim, n_way); if proto_init:
\* classifier.init_params_from_prototypes(z_a_i, n_way, n_support)
classifier_init ==
    /\ pc = "head_new"
    /\ \E h \in DefaultHeads(cfg.n_way) :
          ep' = [ep EXCEPT !.head = IF cfg.proto_init
                                    THEN init_params_from_prototypes(ep.z_support, cfg.n_way,
                                                                     cfg.n_support)
                                    ELSE h]
    /\ pc' = "head_ready"
    /\ UNCHANGED <<cfg, tracing, store, grad, task, ti, k, batch, pending, err, calls, handler,
                   theta0, dirty0, grad_sum, done, n_adapt, n_step, last_loss>>

\* scores = classifier(output); _, predictions = torch.max(scores, dim=1)
\* for one embedding x, before any fine-tuning step
classifier_score ==
    /\ pc = "head_ready"
    /\ \E x \in (0 - 1) .. (MaxData + 1) :
          ep' = [ep EXCEPT !.x = x, !.scores = fc(ep.head, x),
                           !.pred = argmax(fc(ep.head, x)) - 1]
    /\ pc' = "head_scored"
    /\ UNCHANGED <<cfg, tracing, store, grad, task, ti, k, batch, pending, err, calls, handler,
                   theta0, dirty0, grad_sum, done, n_adapt, n_step, last_loss>>

\* Every variable that the handlers of a specification leave alone.
InitLocals ==
    /\ store = [r \in {"outer", "local", "snap"} |-> IF r = "outer" THEN InitParams ELSE NoParams]
    /\ grad = ZeroGrad
    /\ task = NoTask
    /\ ti = 0
    /\ k = 0
    /\ batch = [d |-> 0]
    /\ pending = NoParams
    /\ err = "none"
    /\ calls = 0
    /\ handler = "none"
    /\ theta0 = InitParams
    /\ dirty0 = FALSE
    /\ grad_sum = [c \in Comp |-> 0]
    /\ done = <<>>
    /\ n_adapt = 0
    /\ n_step = 0
    /\ last_loss = NoLoss

\* The head of one episode: its support embeddings are any values 0..MaxData.
HeadConfig == [cls : {"Classifier"}, proto_init : BOOLEAN, n_way : {EvalWays},
               n_support : 1 .. MaxShots]

InitHead ==
    /\ cfg \in HeadConfig
    /\ tracing = FALSE
    /\ pc = "head_new"
    /\ InitLocals
    /\ \E z \in [1 .. (cfg.n_way * cfg.n_support) -> 0 .. MaxData] :
          ep = [z_support |-> z, head |-> <<>>, x |-> 0, scores |-> <<>>, pred |-> 0 - 1]

NextHead ==
    \/ classifier_init
    \/ classifier_score

SpecHead == InitHead /\ [][NextHead]_vars

\* ------------------------------------ prototune: the fine-tuning loop
\* The loop of MAMLCLR.prototune and CLRGAT.prototune in detail: module modes,
\* the permutation and its mini-batches, augmentation, the loss terms and the
\* optimizer steps. The episode is well formed: n_way * n_support support rows.

\* The labels delivered with the rows of an episode set of n_way * n rows, by
\* the order the supplier emits the rows in.
SuppliedLabels(order, n_way, n) ==
    [r \in 1 .. (n_way * n) |-> IF order = "class_major" THEN (r - 1) \div n
                                ELSE (r - 1) % n_way]

\* np.random.permutation(support_size)
permutation(n) == {p \in [1 .. n -> 0 .. (n - 1)] : \A a, b \in 1 .. n : p[a] = p[b] => a = b}

\* the kinds of batch-normalization layers among self.modules()
BNKinds == {"BatchNorm1d", "BatchNorm2d"}

\* self.train() / self.eval(): the training flag of every layer
train(m) == [kd \in DOMAIN m |-> TRUE]
eval(m) == [kd \in DOMAIN m |-> FALSE]

\* for module in self.modules(): if isinstance(module, BatchNorm2d): module.eval()
batch_norm_eval(m) == [kd \in DOMAIN m |-> IF kd = "BatchNorm2d" THEN FALSE ELSE m[kd]]

\* `if self.finetune_use_projector:` (an Optional[int]; CLRGAT has no projector)
UsesProjector == cfg.cls = "MAMLCLR" /\ cfg.finetune_use_projector # "None"

\* whether the mini-batch is doubled: `if use_augs:` in MAMLCLR, always in CLRGAT
Augments == IF cfg.cls = "MAMLCLR" THEN cfg.use_augs ELSE TRUE

\* whether augmentation is something the module's configuration asks for:
\* prototune_use_augs in MAMLCLR; CLRGAT has no such argument
AugmentationConfigured == cfg.cls = "MAMLCLR" /\ cfg.use_augs

\* the terms of the mini-batch loss
LossTermsUnfrozenOnly ==
    {"cross_entropy"} \cup (IF cfg.freeze = FALSE THEN {"sup_con"} ELSE {})
LossTerms ==
    {"cross_entropy"} \cup
    (IF cfg.cls = "MAMLCLR"
     THEN IF cfg.freeze = FALSE \/ UsesProjector THEN {"sup_con"} ELSE {}
     ELSE IF cfg.freeze = FALSE THEN {"sup_con"} ELSE {})

\* the parameter groups of the model delta_opt is built over:
\* self.model.gnn.parameters()
WholeModel == Comp
delta_opt_params == {"gnn"}

\* rand_id[j: min(j + batch_size, support_size)]
SelectOneMore(rand_id, j, batch_size, support_size) ==
    SubSeq(rand_id, j + 1, Min(j + batch_size + 1, support_size))
select(rand_id, j, batch_size, support_size) ==
    SubSeq(rand_id, j + 1, Min(j + batch_size, support_size))

\* y.repeat(2) of a 1-D tensor: the tensor followed by itself
repeat2(y) == y \o y

NoFineTune == [n_way |-> 0, n_support |-> 0, n_query |-> 0, support_size |-> 0,
               y_support |-> <<>>, y_query |-> <<>>, y_a_i |-> <<>>, y_b_i |-> <<>>,
               training |-> <<>>, rand_id |-> <<>>, epoch |-> 0, j |-> 0, selected |-> <<>>,
               selected_id |-> <<>>, z_batch |-> <<>>, y_batch |-> <<>>, loss |-> {},
               forward_training |-> <<>>, cls_steps |-> 0, delta_steps |-> 0]

\* prototune from its entry to the fine-tuning loop: the labels by position,
\* self.train(), the optimizers, the modes of the loop
finetune_setup ==
    /\ pc = "idle"
    /\ \E n_way \in 2 .. EvalWays, n_support \in 1 .. MaxShots, n_query \in 1 .. MaxShots,
          order \in {"class_major", "interleaved"} :
          /\ n_way * n_support <= MaxSupportRows
          /\ LET m0 == [kd \in cfg.bn_kinds |-> FALSE]                   \* self.eval()
                 m1 == train(m0)                                         \* self.train()
                 m2 == IF cfg.freeze = FALSE THEN m1 ELSE eval(m1)       \* gnn.train() / self.eval()
                 m3 == IF ~cfg.finetune_batch_norm THEN batch_norm_eval(m2) ELSE m2
             IN ep' = [NoFineTune EXCEPT
                          !.n_way = n_way, !.n_support = n_support, !.n_query = n_query,
                          !.support_size = n_way * n_support,
                          !.y_support = SuppliedLabels(order, n_way, n_support),
                          !.y_query = SuppliedLabels(order, n_way, n_query),
                          !.y_a_i = RepeatLabels(n_way, n_support),
                          !.y_b_i = RepeatLabels(n_way, n_query),
                          !.training = m3]
    /\ theta0' = store["outer"]
    /\ handler' = "prototune"
    /\ pc' = "ft_epoch"
    /\ UNCHANGED <<cfg, tracing, store, grad, task, ti, k, batch, pending, err, calls,
                   dirty0, grad_sum, done, n_adapt, n_step, last_loss>>

\* for epoch in range(total_epoch): rand_id = np.random.permutation(support_size)
finetune_permute ==
    /\ pc = "ft_epoch"
    /\ ep.epoch < cfg.epochs
    /\ \E p \in permutation(ep.support_size) :
          ep' = [ep EXCEPT !.rand_id = p, !.j = 0, !.selected = <<>>]
    /\ pc' = "ft_batch"
    /\ UNCHANGED <<cfg, tracing, store, grad, task, ti, k, batch, pending, err, calls, handler,
                   theta0, dirty0, grad_sum, done, n_adapt, n_step, last_loss>>

\* for j in range(0, support_size, batch_size): one mini-batch, from
\* zero_grad to the optimizer steps
finetune_minibatch ==
    /\ pc = "ft_batch"
    /\ LET batch_size == ep.n_way
           selected_id == select(ep.rand_id, ep.j, batch_size, ep.support_size)
           rows == [i \in 1 .. Len(selected_id) |-> [row |-> selected_id[i], aug |-> FALSE]]
           views == [i \in 1 .. Len(selected_id) |-> [row |-> selected_id[i], aug |-> TRUE]]
           y == [i \in 1 .. Len(selected_id) |-> ep.y_a_i[selected_id[i] + 1]]
           z_batch == IF Augments THEN rows \o views ELSE rows
           y_batch == IF Augments THEN repeat2(y) ELSE y
           dg == LossGrad(store["outer"], Len(z_batch))
           last == ep.j + batch_size >= ep.support_size
       IN /\ ep' = [ep EXCEPT !.selected_id = selected_id,
                              !.selected = Append(@, selected_id),
                              !.z_batch = z_batch, !.y_batch = y_batch,
                              !.loss = LossTerms,
                              !.forward_training = ep.training,
                              !.cls_steps = @ + 1,
                              !.delta_steps = IF cfg.freeze = FALSE THEN @ + 1 ELSE @,
                              !.j = IF last THEN 0 ELSE ep.j + batch_size,
                              !.epoch = IF last THEN @ + 1 ELSE @]
          /\ store' = IF cfg.freeze = FALSE
                      THEN [store EXCEPT !["outer"] =
                               [c \in Comp |-> IF c \in delta_opt_params
                                               THEN Adapt(store["outer"], dg)[c]
                                               ELSE store["outer"][c]]]
                      ELSE store
          /\ pc' = IF last THEN "ft_epoch" ELSE "ft_batch"
    /\ UNCHANGED <<cfg, tracing, grad, task, ti, k, batch, pending, err, calls, handler,
                   theta0, dirty0, grad_sum, done, n_adapt, n_step, last_loss>>

\* after the loop: classifier.eval(); self.eval(); the query set is scored
\* against y_query = np.repeat(range(n_way), n_query)
finetune_score ==
    /\ pc = "ft_epoch"
    /\ ep.epoch >= cfg.epochs
    /\ ep' = [ep EXCEPT !.training = eval(ep.training)]
    /\ pc' = "ft_scored"
    /\ UNCHANGED <<cfg, tracing, store, grad, task, ti, k, batch, pending, err, calls, handler,
                   theta0, dirty0, grad_sum, done, n_adapt, n_step, last_loss>>

\* The arguments _shared_eval_step hands to prototune, and the batch-norm
\* layers of the module (the backbone may be any nn.Module).
FineTuneConfig ==
    {c \in [cls : {"MAMLCLR", "CLRGAT"}, freeze : BOOLEAN, finetune_batch_norm : BOOLEAN,
            finetune_use_projector : {"None", "1600"}, use_augs : BOOLEAN,
            epochs : 0 .. MaxEpochs,
            bn_kinds : {{"BatchNorm2d"}, BNKinds}] :
        c.cls = "CLRGAT" => (c.finetune_use_projector = "None" /\ c.use_augs = FALSE)}

InitFineTune ==
    /\ cfg \in FineTuneConfig
    /\ tracing = FALSE
    /\ pc = "idle"
    /\ ep = NoFineTune
    /\ InitLocals

NextFineTune ==
    \/ finetune_setup
    \/ finetune_permute
    \/ finetune_minibatch
    \/ finetune_score

SpecFineTune == InitFineTune /\ [][NextFineTune]_vars

\* ------------------------- fast_adapt / training_step: the outer query set
\* einops.rearrange(query_set, "b a c h w -> (b a) c h w"): row r of the
\* result is view (r - 1) mod a of instance (r - 1) div a.
rearrange(b, a) == [r \in 1 .. (b * a) |-> [instance |-> (r - 1) \div a, view |-> (r - 1) % a]]

\* torch.arange(batch_size).unsqueeze(0).unsqueeze(2).repeat(1, 1, n_query - 3).view(1, -1)
y_query_q(batch_size, n_query) ==
    [r \in 1 .. (batch_size * (n_query - QueryViews)) |-> (r - 1) \div (n_query - QueryViews)]

\* y_support of training_step for a task of `ways` instances out of batch_size
y_support_of(ways, batch_size) ==
    [r \in 1 .. batch_size |-> IF r <= ways * SupportShots THEN (r - 1) \div SupportShots
                               ELSE ways + 1]

\* query_set = self.task_generator.queries(); the rearrangement; _, z = learner(query_set)
outer_queries ==
    /\ pc = "idle"
    /\ \E ways \in 1 .. cfg.batch_size :
          task' = [ways |-> ways, rows |-> rearrange(cfg.batch_size, cfg.outer_views),
                   y_support |-> y_support_of(ways, cfg.batch_size), y_query |-> <<>>]
    /\ handler' = "outer_eval"
    /\ pc' = "oq_embedded"
    /\ UNCHANGED <<cfg, tracing, store, grad, ti, k, batch, pending, err, calls, ep,
                   theta0, dirty0, grad_sum, done, n_adapt, n_step, last_loss>>

\* y_query_q; loss, acc = self.calculate_protoclr_loss(z, y_support, y_query_q, self.batch_size)
outer_loss ==
    /\ pc = "oq_embedded"
    /\ LET y_q == y_query_q(cfg.batch_size, cfg.n_query)
           L == calculate_protoclr_loss(Len(task.rows), task.y_support, y_q, cfg.batch_size,
                                        cfg.n_support, "outer_eval")
       IN /\ task' = [task EXCEPT !.y_query = y_q]
          /\ last_loss' = L
          /\ IF L.err # "none"
             THEN Raise(L.err)
             ELSE /\ pc' = "oq_scored"
                  /\ UNCHANGED err
    /\ UNCHANGED <<cfg, tracing, handler, store, grad, ti, k, batch, pending, calls, ep,
                   theta0, dirty0, grad_sum, done, n_adapt, n_step>>

\* A module by its batch_size, n_support and n_query, and the number of outer
\* views per instance the task generator hands out.
OuterConfig ==
    [cls : {"MAMLCLR"}, batch_size : 1 .. BatchSize, n_support : 1 .. 2,
     n_query : (QueryViews + 1) .. (NQuery + 1), outer_views : 1 .. NQuery]

InitOuter ==
    /\ cfg \in OuterConfig
    /\ tracing = FALSE
    /\ pc = "idle"
    /\ ep = NoEpisode
    /\ InitLocals

NextOuter ==
    \/ outer_queries
    \/ outer_loss

SpecOuter == InitOuter /\ [][NextOuter]_vars

\* ------------------------------------------- PCLROBoW: teacher and student
\* The student (self.feature_extractor) holds one value in 0..ValMod-1, the
\* teacher (self.feature_extractor_teacher) an exact fraction [num, den];
\* the momentum is counted in quarters, alpha = 4 standing for 1.0.

\* cos(pi * iteration / num_iterations) for num_iterations in {1, 2}
cos_pi(iteration, num_iterations) ==
    LET q == ((iteration * 2) \div num_iterations) % 4
    IN IF q = 0 THEN 1 ELSE IF q = 2 THEN 0 - 1 ELSE 0

\* _get_momentum_alpha: the cosine schedule from alpha_base to 1.0, counting
\* the iteration; the constant self._alpha without the schedule
get_momentum_alpha(m) ==
    IF cfg.alpha_cosine
    THEN [m EXCEPT !.alpha = 4 - ((4 - cfg.alpha) * (1 + cos_pi(m.iteration, cfg.num_iterations))) \div 2,
                   !.iteration = @ + 1]
    ELSE m

\* `if not self.training: return` at the head of _update_teacher
UpdatesInAnyMode(training) == TRUE
update_runs(training) == training

\* _update_teacher: param_teacher = param_teacher * alpha + param * (1 - alpha)
update_teacher(m) ==
    IF ~update_runs(m.training) THEN m
    ELSE LET m1 == get_momentum_alpha(m)
         IN IF m1.alpha >= 4 THEN m1
            ELSE [m1 EXCEPT !.teacher =
                     [num |-> m.teacher.num * m1.alpha + m.student * (4 - m1.alpha) * m.teacher.den,
                      den |-> m.teacher.den * 4]]

\* one optimizer step on the student's parameters
step_student(student) == (student + 1) % ValMod

NoEntry == [student |-> 0, teacher |-> [num |-> 0, den |-> 1], alpha |-> 0, iteration |-> 0,
            training |-> FALSE, ft_steps |-> 0, query_ok |-> TRUE]

\* the values held when a handler is entered
Entry(m) == [NoEntry EXCEPT !.student = m.student, !.teacher = m.teacher, !.alpha = m.alpha,
                            !.iteration = m.iteration, !.training = m.training]

\* self.train() / self.eval(), called by the trainer between handlers
set_mode ==
    /\ pc = "idle"
    /\ ep' = [ep EXCEPT !.training = ~@]
    /\ UNCHANGED <<cfg, tracing, pc, store, grad, task, ti, k, batch, pending, err, calls, handler,
                   theta0, dirty0, grad_sum, done, n_adapt, n_step, last_loss>>

\* PCLROBoW.training_step: self.forward returns None outside training mode
\* (the unpacking of its result fails), else it runs _update_teacher
obow_training_step ==
    /\ pc = "idle"
    /\ calls < MaxCalls
    /\ calls' = calls + 1
    /\ handler' = "training_step"
    /\ task' = Entry(ep)
    /\ IF ep.training = FALSE
       THEN /\ Raise("TypeError")
            /\ UNCHANGED ep
       ELSE /\ ep' = update_teacher(ep)
            /\ pc' = "obow_optim"
            /\ UNCHANGED err
    /\ UNCHANGED <<cfg, tracing, store, grad, ti, k, batch, pending,
                   theta0, dirty0, grad_sum, done, n_adapt, n_step, last_loss>>

\* the trainer's optimizer step on the loss training_step returned:
\* configure_optimizers holds the parameters with requires_grad, the teacher's
\* are not among them
obow_optimizer_step ==
    /\ pc = "obow_optim"
    /\ ep' = [ep EXCEPT !.student = step_student(@)]
    /\ pc' = "idle"
    /\ UNCHANGED <<cfg, tracing, store, grad, task, ti, k, batch, pending, err, calls, handler,
                   theta0, dirty0, grad_sum, done, n_adapt, n_step, last_loss>>

\* a call of _update_teacher on its own, in whatever mode the module is in
update_teacher_call ==
    /\ pc = "idle"
    /\ calls < MaxCalls
    /\ calls' = calls + 1
    /\ handler' = "_update_teacher"
    /\ task' = Entry(ep)
    /\ ep' = update_teacher(ep)
    /\ UNCHANGED <<cfg, tracing, pc, store, grad, ti, k, batch, pending, err,
                   theta0, dirty0, grad_sum, done, n_adapt, n_step, last_loss>>

\* validation_step / test_step up to the branch on self.sup_finetune:
\* original_encoder_state = copy.deepcopy(self.feature_extractor.state_dict())
obow_eval_begin ==
    /\ pc = "idle"
    /\ calls < MaxCalls
    /\ calls' = calls + 1
    /\ \E h \in {"validation_step", "test_step"} : handler' = h
    /\ \E ok \in BOOLEAN : task' = [Entry(ep) EXCEPT !.query_ok = ok]
    /\ ep' = [ep EXCEPT !.snap = ep.student, !.epoch = 0]
    /\ pc' = IF cfg.sup_finetune THEN "obow_finetune" ELSE "obow_std_proto"
    /\ UNCHANGED <<cfg, tracing, store, grad, ti, k, batch, pending, err,
                   theta0, dirty0, grad_sum, done, n_adapt, n_step, last_loss>>

\* supervised_finetuning, one epoch of mini-batches: classifier_opt.step()
\* and, unless frozen, delta_opt.step() on the encoder (the student)
obow_finetune_epoch ==
    /\ pc = "obow_finetune"
    /\ ep.epoch < cfg.epochs
    /\ ep' = [ep EXCEPT !.epoch = @ + 1,
                        !.student = IF cfg.freeze = FALSE THEN step_student(@) ELSE @]
    /\ task' = [task EXCEPT !.ft_steps = IF cfg.freeze = FALSE THEN @ + 1 ELSE @]
    /\ UNCHANGED <<cfg, tracing, pc, store, grad, ti, k, batch, pending, err, calls, handler,
                   theta0, dirty0, grad_sum, done, n_adapt, n_step, last_loss>>

\* supervised_finetuning scores the query set (F.cross_entropy fails when the
\* query rows are no multiple of n_way), then
\* self.feature_extractor.load_state_dict(original_encoder_state)
obow_finetune_return ==
    /\ pc = "obow_finetune"
    /\ ep.epoch >= cfg.epochs
    /\ IF ~task.query_ok
       THEN /\ Raise("ValueError")
            /\ UNCHANGED ep
       ELSE /\ ep' = [ep EXCEPT !.student = load_state_dict(@, ep.snap)]
            /\ pc' = "idle"
            /\ UNCHANGED err
    /\ UNCHANGED <<cfg, tracing, store, grad, task, ti, k, batch, pending, calls, handler,
                   theta0, dirty0, grad_sum, done, n_adapt, n_step, last_loss>>

\* loss, accuracy = self.std_proto_form(batch, batch_idx) under torch.no_grad()
obow_std_proto ==
    /\ pc = "obow_std_proto"
    /\ pc' = "idle"
    /\ UNCHANGED <<cfg, tracing, store, grad, task, ti, k, batch, pending, err, calls, handler, ep,
                   theta0, dirty0, grad_sum, done, n_adapt, n_step, last_loss>>

\* PCLROBoW.__init__ and setup: alpha 0.5 or 1.0 in quarters, with or without
\* the cosine schedule over num_iterations training iterations.
TeacherConfig ==
    [cls : {"PCLROBoW"}, alpha : {2, 4}, alpha_cosine : BOOLEAN, num_iterations : {1, 2},
     sup_finetune : BOOLEAN, freeze : BOOLEAN, epochs : 0 .. MaxEpochs]

\* the teacher is a deep copy of the student; Lightning starts in training mode
InitTeacher ==
    /\ cfg \in TeacherConfig
    /\ tracing = FALSE
    /\ pc = "idle"
    /\ \E s \in 0 .. (ValMod - 1) :
          ep = [student |-> s, teacher |-> [num |-> s, den |-> 1], alpha |-> cfg.alpha,
                iteration |-> 0, training |-> TRUE, snap |-> 0, epoch |-> 0]
    /\ InitLocals

NextTeacher ==
    \/ set_mode
    \/ obow_training_step
    \/ obow_optimizer_step
    \/ update_teacher_call
    \/ obow_eval_begin
    \/ obow_finetune_epoch
    \/ obow_finetune_return
    \/ obow_std_proto

SpecTeacher == InitTeacher /\ [][NextTeacher]_vars

\* ------------------------------------------------------------- properties
InTraining == handler = "training_step"
InEval == handler = "eval_step"


\* C1: snapshot round trip. When _shared_eval_step has returned from a
\* prototune episode, every parameter group of the model holds the value it
\* held when the call was entered.
SnapshotRoundTrip ==
    (InEval /\ pc = "idle") => store["outer"] = theta0

\* An unfrozen episode has returned whose last mini-batch stepped the gnn.
SnapshotRoundTripWitness ==
    /\ InEval
    /\ pc = "idle"
    /\ ~cfg.freeze
    /\ cfg.epochs >= 1
    /\ (grad["gnn"].num \div grad["gnn"].den) % ValMod # 0

\* C2: the snapshot is restored on every way out of the episode. When an
\* error raised by fine-tuning or query scoring has reached the caller of
\* _shared_eval_step, the model parameters equal the snapshot.
RestoredOnError ==
    (InEval /\ pc = "raised") => store["outer"] = theta0

\* C3: inner-loop isolation. From the start of a training step until
\* outer_optim.step() the outer parameters keep the values they had when the
\* step was entered (and so does the evaluation snapshot storage): adapt
\* changes the cloned learner only.
InnerLoopIsolation ==
    (InTraining /\ pc \in {"loop", "clone", "adapt", "backward", "step", "raised"})
        => /\ store["outer"] = theta0
           /\ store["snap"] = NoParams

\* The learner has been adapted away from the outer parameters.
InnerLoopIsolationWitness ==
    /\ InTraining
    /\ pc = "adapt"
    /\ k >= 1
    /\ task.learner = "local"
    /\ store["local"] # store["outer"]
    /\ store["local"] # NoParams

\* C4: one optimizer step per training step, taken after the backward pass of
\* every task, applying for every parameter group the sum of the per-task
\* outer-loss gradients times 1/task_size.
OneAveragedOuterStep ==
    InTraining =>
        /\ n_step = (IF pc \in {"metric", "idle"} THEN 1 ELSE 0)
        /\ pc \in {"step", "metric", "idle"} =>
              /\ \A i \in 1 .. cfg.task_size : "backward" \in done[i]
              /\ \A c \in Comp :
                    grad[c].num * cfg.task_size = grad_sum[c] * grad[c].den

\* A step over two tasks with different gradients has been applied.
OneAveragedOuterStepWitness ==
    /\ InTraining
    /\ pc = "metric"
    /\ cfg.task_size >= 2
    /\ \E c \in Comp : grad[c].num # 0

\* C5: the accumulator is zero before the first backward pass of a step, and
\* up to the scaling it holds exactly the sum of the gradients of the tasks
\* of this step: nothing is carried over from an earlier handler.
AccumulatorStartsAtZero ==
    (InTraining /\ pc \in {"loop", "clone", "adapt", "backward"}) =>
        \A c \in Comp : /\ grad[c].den = 1
                        /\ grad[c].num = grad_sum[c]

\* A step has been entered with gradient left in the buffers by the handler
\* before it, and starts from zero.
AccumulatorStartsAtZeroWitness ==
    /\ InTraining
    /\ pc = "loop"
    /\ ti = 0
    /\ dirty0
    /\ grad = ZeroGrad

\* C6: the tasks of a step are processed one after the other: a task has
\* completed sampling, cloning, adaptation, outer evaluation and backward
\* before the next one is sampled, and each task passes its phases in order.
TasksSequential ==
    InTraining =>
        /\ \A i \in 1 .. (Len(done) - 1) : done[i + 1] # {} => done[i] = Phases
        /\ \A i \in 1 .. Len(done) :
              /\ "clone" \in done[i] => "sample" \in done[i]
              /\ "adapt" \in done[i] => "clone" \in done[i]
              /\ "outer_eval" \in done[i] => "adapt" \in done[i]
              /\ "backward" \in done[i] => "outer_eval" \in done[i]
              /\ i > ti => done[i] = {}

\* The second task of a step is being adapted.
TasksSequentialWitness ==
    /\ InTraining
    /\ ti = 2
    /\ pc = "adapt"
    /\ k >= 1

\* C7: with task_size = 1 and adaptation_steps = 0 the inner loop is a no-op:
\* the learner scored on the outer query set holds the outer parameters and
\* the outer gradient is the gradient of the outer loss at those parameters.
ZeroStepsIsNoOp ==
    (InTraining /\ cfg.task_size = 1 /\ task.steps = 0 /\ task.learner # "none") =>
        /\ n_adapt = 0
        /\ pc \in {"adapt", "backward"} => store[task.learner] = theta0
        /\ pc = "backward" => pending = LossGrad(theta0, batch.d)

\* The outer loss of the one task of a step, reached without an adaptation
\* step, is about to be back-propagated with a gradient that is not zero.
ZeroStepsIsNoOpWitness ==
    /\ InTraining
    /\ cfg.task_size = 1
    /\ task.learner = "local"
    /\ task.steps = 0
    /\ pc = "backward"
    /\ pending # NoParams

\* C8: for every task the inner loop makes exactly adaptation_steps updates
\* of the local learner, each from the task loss on the support + query
\* adaptation set, all of them before the one outer evaluation of the task.
ExactlyAdaptationSteps ==
    (InTraining /\ task.learner # "none") =>
        /\ n_adapt = k
        /\ k <= task.steps
        /\ task.steps = AdaptationSteps
        /\ (pc = "backward" \/ "outer_eval" \in done[ti]) => n_adapt = task.steps
        /\ (pc = "adapt" /\ k < task.steps) => "outer_eval" \notin done[ti]
        /\ (pc = "adapt" /\ k >= 1) =>
              /\ last_loss.by = "adapt"
              /\ last_loss.y_support = task.y_support
              /\ Len(last_loss.z_proto) = BatchSize * SupportShots

\* The outer loss of a task is about to be back-propagated.
ExactlyAdaptationStepsWitness ==
    /\ InTraining
    /\ pc = "backward"
    /\ n_adapt = AdaptationSteps
    /\ store[task.learner] # theta0

\* Whether some class of [0, ways) has no support row labelled with it.
LacksSupport(y_support, ways) ==
    \E c \in 0 .. (ways - 1) : \A r \in 1 .. Len(y_support) : y_support[r] # c

\* C9: a task whose support set has no example of some class makes the step
\* fail with InsufficientSupport: once its loss has been asked for, the error
\* has been raised, and no optimizer step is taken in that step.
InsufficientSupportFails ==
    (InTraining /\ task.y_support # <<>> /\ LacksSupport(task.y_support, BatchSize)
       /\ ~(pc = "adapt" /\ k = 0 /\ task.steps > 0))
        => /\ pc = "raised"
           /\ err = "InsufficientSupport"
           /\ n_step = 0

\* C10: in the 1-shot case the prototype of every class c in [0, ways) is the
\* one support row labelled c, taken unchanged.
OneShotPrototypeIsLabelledRow ==
    (last_loss.by # "none" /\ last_loss.n_support = 1) =>
        \A c \in 1 .. last_loss.ways :
            /\ c <= Len(last_loss.z_proto)
            /\ last_loss.z_proto[c] =
                  [rows |-> {r \in 1 .. Len(last_loss.y_support) : last_loss.y_support[r] = c - 1},
                   averaged |-> FALSE]

LabelsIndexPrototypes ==
    (InTraining /\ last_loss.by = "adapt") =>
        /\ \A r \in 1 .. Len(last_loss.y_support) :
              last_loss.y_support[r] \in 0 .. (last_loss.ways - 1)
        /\ \A r \in 1 .. Len(last_loss.y_query) :
              last_loss.y_query[r] \in 0 .. (last_loss.ways - 1)

\* C13: in self-supervised training_step the synthetic labels match the row
\* layout: support row i * n_support + s and query row i * n_query + j carry
\* label i and hold an image of instance i, for every instance i in [0, ways).
SyntheticLabelsMatchRows ==
    (handler = "self_sup_training_step") =>
        /\ Len(task.y_support) = Len(task.x_support)
        /\ Len(task.y_query) = Len(task.x_query)
        /\ \A i \in 0 .. (task.ways - 1) :
              /\ \A s \in 0 .. (cfg.n_support - 1) :
                    /\ task.y_support[i * cfg.n_support + s + 1] = i
                    /\ task.x_support[i * cfg.n_support + s + 1].inst = i
              /\ \A j \in 0 .. (cfg.n_query - 1) :
                    /\ task.y_query[i * cfg.n_query + j + 1] = i
                    /\ task.x_query[i * cfg.n_query + j + 1].inst = i
                    /\ task.x_query[i * cfg.n_query + j + 1].view = j + 1

\* A batch of several instances with several views each has been labelled
\* and scored.
SyntheticLabelsMatchRowsWitness ==
    /\ handler = "self_sup_training_step"
    /\ pc = "idle"
    /\ task.ways >= 2
    /\ cfg.n_query >= 2
    /\ last_loss.by = "self_sup"
    /\ last_loss.err = "none"

\* The entries of the call trace of the episode that call the graph generator
\* and the refiner.
GnnCalls == {i \in 1 .. Len(ep.trace) : ep.trace[i].op = "gnn"}

\* C14: under every policy and on both evaluation paths a well-formed episode
\* is evaluated without error, and the evaluation ends with a prototype set
\* and one query embedding per query label, row i being query example i.
EveryPolicyCompletes ==
    (InEval /\ ep.snap # "none" /\ WellFormed(ep)
        /\ cfg.sup_finetune \in {"prototune", "std_proto"}) =>
        /\ pc # "raised"
        /\ pc = "restore" =>
              /\ ep.z_proto # <<>>
              /\ Len(ep.output) = ep.n_query_rows
              /\ Len(ep.y_query) = ep.n_query_rows
              /\ \A i \in 1 .. Len(ep.output) : ep.output[i].rows = {ep.n_support_rows + i}

\* C15: under proto_only the graph generator and the refiner are applied to
\* prototypes only, on every evaluation path: no support or query example
\* passes through them.
ProtoOnlyGraphSeesPrototypes ==
    (InEval /\ WellFormed(ep) /\ cfg.adapt = "proto_only") =>
        \A i \in GnnCalls : ep.trace[i].kinds = {"proto"}

\* C16: under none the graph generator and the refiner are never called in a
\* prototune episode, and the support and the query examples are embedded by
\* the backbone alone.
NoneIsBackboneOnly ==
    (InEval /\ WellFormed(ep) /\ cfg.sup_finetune = "prototune" /\ cfg.adapt = "none") =>
        /\ GnnCalls = {}
        /\ \A i \in 1 .. Len(ep.output) : ep.output[i].path = <<"backbone">>
        /\ \A c \in 1 .. Len(ep.z_proto) : ep.z_proto[c].path = <<"backbone", "mean">>

\* C17: under ot no call of the graph generator or the refiner is made on an
\* embedding of the episode, in prototune and in std_proto_form, whatever
\* mpnn_opts["_use"] is.
OtNeverRefines ==
    (InEval /\ WellFormed(ep) /\ cfg.adapt = "ot") => GnnCalls = {}

\* C18: under task a completed scoring pass has built the graph exactly once,
\* over the prototypes in class order followed by the queries in their
\* order, and the split gives back the refined queries row by row.
TaskGraphOverPrototypesAndQueries ==
    (InEval /\ cfg.use /\ cfg.adapt = "task" /\ pc = "restore" /\ ep.scored # "none") =>
        LET passes == {i \in GnnCalls : ep.trace[i].stage \in {"score", "std_proto"}}
        IN /\ Cardinality(passes) = 1
           /\ \A i \in passes :
                 /\ Len(ep.trace[i].input) = EvalWays + ep.n_query_rows
                 /\ \A c \in 1 .. EvalWays :
                       KindOf(ep, ep.trace[i].input[c]) = "proto"
                 /\ \A q \in 1 .. ep.n_query_rows :
                       ep.trace[i].input[EvalWays + q].rows = {ep.n_support_rows + q}
           /\ \A q \in 1 .. Len(ep.output) :
                 /\ ep.output[q].rows = {ep.n_support_rows + q}
                 /\ ep.output[q].path = <<"backbone", "gnn">>

\* C19: under instance every call of the graph generator and the refiner in
\* an episode (initial embedding, fine-tuning mini-batches, final scoring) is
\* given the query examples of the episode together with support examples,
\* and the prototypes are computed from refined embeddings.
InstanceGraphSeesSupportAndQuery ==
    (InEval /\ WellFormed(ep) /\ cfg.use /\ cfg.adapt = "instance") =>
        /\ \A i \in GnnCalls :
              /\ ep.trace[i].kinds = {"support", "query"}
              /\ \A q \in 1 .. ep.n_query_rows :
                    \E n \in 1 .. Len(ep.trace[i].input) :
                        ep.trace[i].input[n].rows = {ep.n_support_rows + q}
        /\ \A c \in 1 .. Len(ep.z_proto) : ep.z_proto[c].path = <<"backbone", "gnn", "mean">>

\* C20: on every evaluation path the backbone has been called before the
\* adapt policy is dispatched on.
BackboneBeforeDispatch ==
    (InEval /\ WellFormed(ep)) =>
        \A i \in 1 .. Len(ep.trace) :
            ep.trace[i].op = "dispatch" =>
                \E n \in 1 .. (i - 1) : /\ ep.trace[n].op = "backbone"
                                        /\ ep.trace[n].stage = ep.trace[i].stage

\* C21: with proto_init set, weight row c of the head is 2 * prototype_c and
\* bias c is -(squared norm of prototype_c), and before any fine-tuning step
\* the class the head picks for an embedding x is the class of the prototype
\* nearest to x in squared Euclidean distance (the first one among equals).
PrototypeHeadIsNearestPrototype ==
    (pc = "head_scored" /\ cfg.proto_init) =>
        LET n == cfg.n_support
            s(c) == SumRows(ep.z_support, (c - 1) * n + 1, n)     \* n * prototype_c
            d(c) == (n * ep.x - s(c)) * (n * ep.x - s(c))         \* n^2 * |x - prototype_c|^2
        IN /\ \A c \in 1 .. cfg.n_way :
                 /\ ep.head.weight[c].num * n = 2 * s(c) * ep.head.weight[c].den
                 /\ ep.head.bias[c].num * n * n = (0 - s(c) * s(c)) * ep.head.bias[c].den
           /\ ep.pred + 1 \in 1 .. cfg.n_way
           /\ \A c \in 1 .. cfg.n_way : d(ep.pred + 1) <= d(c)
           /\ \A c \in 1 .. ep.pred : d(ep.pred + 1) < d(c)

\* A prototype-initialised 2-shot head picked a class other than the first.
PrototypeHeadIsNearestPrototypeWitness ==
    /\ pc = "head_scored"
    /\ cfg.proto_init
    /\ cfg.n_support = 2
    /\ ep.pred = 1
    /\ ep.x = 1

InFineTune == handler = "prototune"

\* C22 as stated: in every fine-tuning mini-batch the loss is the classifier
\* cross-entropy, and the supervised contrastive term is added if and only if
\* freeze_backbone is False.
SupConIffUnfrozen ==
    (InFineTune /\ ep.loss # {}) =>
        /\ "cross_entropy" \in ep.loss
        /\ ("sup_con" \in ep.loss) <=> (cfg.freeze = FALSE)

\* C22, amended: the loss of every fine-tuning mini-batch is the classifier
\* cross-entropy, plus the supervised contrastive term if and only if
\* freeze_backbone is False or (MAMLCLR) finetune_use_projector is set.
SupConIffUnfrozenOrProjector ==
    (InFineTune /\ ep.loss # {}) =>
        /\ "cross_entropy" \in ep.loss
        /\ ep.loss \subseteq {"cross_entropy", "sup_con"}
        /\ ("sup_con" \in ep.loss) <=>
              (cfg.freeze = FALSE \/ (cfg.cls = "MAMLCLR" /\ cfg.finetune_use_projector # "None"))

\* A mini-batch of a frozen MAMLCLR with a fine-tuning projector has been run.
SupConIffUnfrozenOrProjectorWitness ==
    /\ InFineTune
    /\ cfg.freeze
    /\ cfg.cls = "MAMLCLR"
    /\ cfg.finetune_use_projector # "None"
    /\ ep.loss = {"cross_entropy", "sup_con"}

\* C23: in prototune only the gnn's parameters are stepped: frozen, no
\* parameter of the model changes at any mini-batch while the classifier's
\* optimizer steps; unfrozen, the backbone and the graph generator keep their
\* pre-fine-tuning values after every mini-batch and delta_opt steps once per
\* mini-batch.
OnlyRefinerStepped ==
    InFineTune =>
        /\ store["outer"]["backbone"] = theta0["backbone"]
        /\ store["outer"]["graph_generator"] = theta0["graph_generator"]
        /\ cfg.freeze => (store["outer"] = theta0 /\ ep.delta_steps = 0)
        /\ (cfg.freeze = FALSE) => ep.delta_steps = ep.cls_steps

\* An unfrozen fine-tuning has changed the gnn in its first mini-batch.
OnlyRefinerSteppedWitness ==
    /\ InFineTune
    /\ cfg.freeze = FALSE
    /\ ep.cls_steps = 1
    /\ ep.delta_steps = 1
    /\ store["outer"]["gnn"] # theta0["gnn"]

\* C24: with finetune_batch_norm False every batch-normalization layer of the
\* model is in evaluation mode at every forward pass of the fine-tuning loop,
\* for both freeze_backbone settings.
BatchNormHeldInEval ==
    (InFineTune /\ ~cfg.finetune_batch_norm /\ ep.cls_steps > 0) =>
        \A kd \in DOMAIN ep.forward_training : ep.forward_training[kd] = FALSE

\* C26: the mini-batches of an epoch are disjoint slices of at most n_way
\* indices of [0, n_way * n_support); a completed epoch has selected every
\* index exactly once; the classifier optimizer has stepped total_epoch *
\* ceil(support_size / n_way) times when the loop is over.
MiniBatchesPartitionSupport ==
    InFineTune =>
        LET Occurrences(i) ==
                {bk \in {<<b, x>> : b \in 1 .. Len(ep.selected), x \in 1 .. ep.n_way} :
                    bk[2] <= Len(ep.selected[bk[1]]) /\ ep.selected[bk[1]][bk[2]] = i}
            per_epoch == (ep.support_size + ep.n_way - 1) \div ep.n_way
        IN /\ \A b \in 1 .. Len(ep.selected) :
                 /\ Len(ep.selected[b]) <= ep.n_way
                 /\ \A x \in 1 .. Len(ep.selected[b]) :
                       ep.selected[b][x] \in 0 .. (ep.support_size - 1)
           /\ \A i \in 0 .. (ep.support_size - 1) : Cardinality(Occurrences(i)) <= 1
           /\ (pc \in {"ft_epoch", "ft_scored"} /\ ep.epoch > 0) =>
                 \A i \in 0 .. (ep.support_size - 1) : Cardinality(Occurrences(i)) = 1
           /\ pc = "ft_epoch" => ep.cls_steps = ep.epoch * per_epoch
           /\ pc = "ft_scored" => ep.cls_steps = cfg.epochs * per_epoch

\* A 2-shot episode was fine-tuned for an epoch whose permutation is not the
\* identity, in more than one mini-batch.
MiniBatchesPartitionSupportWitness ==
    /\ InFineTune
    /\ pc = "ft_scored"
    /\ cfg.epochs >= 1
    /\ ep.n_support = 2
    /\ Len(ep.selected) = 2
    /\ ep.rand_id[1] # 0

\* C27: a mini-batch is doubled with augmented views only when augmentation
\* is configured, row m + k of a doubled batch then carries the label of row
\* k; when augmentation is not configured the batch and its labels are the
\* selected support rows unchanged.
AugmentationOnlyWhenConfigured ==
    (InFineTune /\ ep.cls_steps > 0) =>
        LET m == Len(ep.selected_id)
            rows == [x \in 1 .. m |-> [row |-> ep.selected_id[x], aug |-> FALSE]]
            y == [x \in 1 .. m |-> ep.y_a_i[ep.selected_id[x] + 1]]
        IN /\ Len(ep.z_batch) = Len(ep.y_batch)
           /\ Len(ep.z_batch) > m =>
                 /\ AugmentationConfigured
                 /\ Len(ep.z_batch) = 2 * m
                 /\ \A x \in 1 .. m : /\ ep.y_batch[m + x] = ep.y_batch[x]
                                      /\ ep.z_batch[m + x].row = ep.z_batch[x].row
           /\ ~AugmentationConfigured => (ep.z_batch = rows /\ ep.y_batch = y)

\* C29: the label prototune uses for support row i and for query row j
\* (i div n_support, j div n_query) is the label delivered with that row in
\* the episode, whatever order the supplier emits the rows in.
UsesEpisodeLabels ==
    InFineTune =>
        /\ \A i \in 1 .. Len(ep.y_a_i) : ep.y_a_i[i] = ep.y_support[i]
        /\ \A j \in 1 .. Len(ep.y_b_i) : ep.y_b_i[j] = ep.y_query[j]

\* C25: every call of _shared_eval_step runs one scoring strategy and returns
\* the loss and accuracy that strategy computed: for no value of sup_finetune
\* does it come to its return statement without having scored the episode.
NeverReturnsPlaceholders ==
    (InEval /\ pc = "restore") => ep.scored \in {"prototune", "std_proto"}

\* C28: in the outer evaluation, for every batch_size and number of outer
\* views, prototype c is computed from embeddings of instance c, every query
\* row scored carries the label of the instance it is a view of, and there are
\* as many query rows as query labels.
OuterEvalAlignsInstances ==
    (handler = "outer_eval" /\ pc \in {"oq_scored", "raised"}) =>
        LET n_sup == Min(cfg.batch_size * cfg.n_support, Len(task.rows))
        IN /\ \A c \in 1 .. Len(last_loss.z_proto) :
                 \A r \in last_loss.z_proto[c].rows : task.rows[r].instance = c - 1
           /\ Len(task.rows) - n_sup = Len(task.y_query)
           /\ \A j \in 1 .. Len(task.y_query) :
                 task.y_query[j] = task.rows[n_sup + j].instance

\* C30: the teacher's parameters, alpha and the iteration counter change only
\* in _update_teacher with the module in training mode, the teacher only when
\* alpha < 1; in evaluation mode, and throughout validation_step and
\* test_step, they keep their values, and when such a step has returned the
\* student holds its pre-episode value.
TeacherIsolation ==
    /\ [][(cfg.cls = "PCLROBoW" /\ (ep'.teacher # ep.teacher \/ ep'.alpha # ep.alpha
                                        \/ ep'.iteration # ep.iteration)) =>
             /\ ep.training
             /\ handler' \in {"training_step", "_update_teacher"}
             /\ calls' = calls + 1
             /\ ep'.teacher # ep.teacher => ep'.alpha < 4]_vars
    /\ [](handler \in {"validation_step", "test_step"} =>
             /\ ep.teacher = task.teacher
             /\ ep.alpha = task.alpha
             /\ ep.iteration = task.iteration
             /\ pc = "idle" => ep.student = task.student)

\* A validation or test step has returned that fine-tuned the unfrozen
\* student, in a module whose teacher had been updated before.
TeacherIsolationWitness ==
    /\ handler \in {"validation_step", "test_step"}
    /\ pc = "idle"
    /\ cfg.sup_finetune
    /\ cfg.freeze = FALSE
    /\ task.ft_steps >= 1
    /\ ep.teacher.den > 1

====
